---- MODULE Spec2Model ----
(***************************************************************************)
(* Model of the prediction pipeline of rustfig: PredictionCache            *)
(* (prediction/cache.rs), UserLearningSystem (prediction/learning.rs),     *)
(* PredictionRanker (prediction/ranking.rs) and PredictionEngine           *)
(* (prediction/engine.rs).                                                 *)
(*                                                                         *)
(* Confidence is an f32 in the source.  It is modelled in fixed point:     *)
(* the integer n stands for n / One, so 80000 is 0.8 and One is 1.0.       *)
(* Every product the scoring code forms on the engine's base confidences   *)
(* is exact in this representation.                                        *)
(*                                                                         *)
(* A Prediction is the record of the fields the pipeline reads or writes:  *)
(* text, prediction_type, source, confidence, usage_count.  display_text,  *)
(* tokens_completed, explanation, timestamp and metadata are set by        *)
(* Prediction::new and never touched by the pipeline.                      *)
(***************************************************************************)
EXTENDS Integers, Sequences, FiniteSets, TLC

\* ------------------------------------------------------------------ bounds
\* Largest value of the model clock (Instant::now() in model ticks).
MaxTime == 3
\* entry_ttl of the cache in model ticks (the engine passes 300 s).
TTL == 2
\* PredictionCache::new(max_entries, _) is explored for 1..MaxEntries.
MaxEntries == 3
\* Largest number of record_accepted_prediction calls explored.
MaxAccepts == 1

\* ------------------------------------------------------------- value types
One == 100000

\* Option<T>
None == [some |-> FALSE]
Some(x) == [some |-> TRUE, value |-> x]

Min(a, b) == IF a <= b THEN a ELSE b

PredictionType == {"FullCommand", "NextToken", "Flag", "ArgumentValue", "Path"}

PredictionSource ==
    {"History", "DirectoryContext", "ProjectType", "GitContext",
     "CommandPatterns", "UserPatterns"}

\* Prediction::new(text, prediction_type, source, confidence)
Prediction(text, ptype, src, conf) ==
    [text |-> text, prediction_type |-> ptype, source |-> src,
     confidence |-> conf, usage_count |-> 0]

\* ------------------------------------------------------- PredictionCache
\* The raw input strings predict is called with.  "'" (an unterminated
\* quote) stands for an input the command parser rejects.
Inputs == {"", ".", "'"}

\* The keys the cache operations are called with directly.
Keys == Inputs

\* CacheEntry { predictions, timestamp }
CacheEntry(preds, ts) == [predictions |-> preds, timestamp |-> ts]

\* entry.timestamp.elapsed() < self.entry_ttl
IsFreshLe(entry, t) == t - entry.timestamp <= TTL
IsFreshEarly(entry, t) == t - entry.timestamp < TTL - 1
IsFresh(entry, t) == t - entry.timestamp < TTL

\* HashMap::insert
Insert(c, key, entry) ==
    [k \in (DOMAIN c) \cup {key} |-> IF k = key THEN entry ELSE c[k]]

\* HashMap::retain / HashMap::remove for a set of keys to keep
Restrict(c, keep) == [k \in keep |-> c[k]]

\* PredictionCache::get
getNever(c, key, t) == None
get(c, key, t) ==
    IF key \in DOMAIN c /\ IsFresh(c[key], t)
    THEN Some(c[key].predictions)
    ELSE None

\* PredictionCache::contains
contains(c, key, t) == key \in DOMAIN c /\ IsFresh(c[key], t)

\* cache.retain(|_, entry| now.duration_since(entry.timestamp) < ttl)
RetainFresh(c, t) == Restrict(c, {k \in DOMAIN c : IsFresh(c[k], t)})

\* to_remove = self.max_entries / 3
ToRemove(max) == max \div 3

\* The sets of keys `entries.iter().take(to_remove)` can name once the
\* entries are sorted by timestamp: the sort is stable over the map's
\* iteration order, which is arbitrary, so entries with equal timestamps
\* may come in any order.
OldestSets(c, n) ==
    {R \in SUBSET (DOMAIN c) :
        /\ Cardinality(R) = Min(n, Cardinality(DOMAIN c))
        /\ \A r \in R : \A s \in (DOMAIN c) \ R :
               c[r].timestamp <= c[s].timestamp}

\* PredictionCache::cleanup_cache: the set of maps it can leave behind.
cleanup_cacheNoRecheck(c, t, max) ==
    LET live == RetainFresh(c, t) IN
    {Restrict(live, (DOMAIN live) \ R) : R \in OldestSets(live, ToRemove(max))}
cleanup_cache(c, t, max) ==
    LET live == RetainFresh(c, t) IN
    IF Cardinality(DOMAIN live) >= max
    THEN {Restrict(live, (DOMAIN live) \ R) : R \in OldestSets(live, ToRemove(max))}
    ELSE {live}

\* PredictionCache::set: the set of maps it can leave behind.
setKeepsTimestamp(c, key, preds, t, max) ==
    IF preds = <<>>
    THEN {c}
    ELSE LET cleaned == IF Cardinality(DOMAIN c) >= max
                        THEN cleanup_cache(c, t, max)
                        ELSE {c}
             ts == IF key \in DOMAIN c THEN c[key].timestamp ELSE t
         IN  {Insert(c2, key, CacheEntry(preds, ts)) : c2 \in cleaned}
setEmptyToo(c, key, preds, t, max) ==
    LET cleaned == IF Cardinality(DOMAIN c) >= max
                   THEN cleanup_cache(c, t, max)
                   ELSE {c}
    IN  {Insert(c2, key, CacheEntry(preds, t)) : c2 \in cleaned}
set(c, key, preds, t, max) ==
    IF preds = <<>>
    THEN {c}
    ELSE LET cleaned == IF Cardinality(DOMAIN c) >= max
                        THEN cleanup_cache(c, t, max)
                        ELSE {c}
         IN  {Insert(c2, key, CacheEntry(preds, t)) : c2 \in cleaned}

\* Index of the first prediction whose text is `text`, 0 if there is none.
LastIndex(preds, text) ==
    IF \E i \in 1..Len(preds) : preds[i].text = text
    THEN CHOOSE i \in 1..Len(preds) :
            /\ preds[i].text = text
            /\ \A j \in (i + 1)..Len(preds) : preds[j].text # text
    ELSE 0
FirstIndex(preds, text) ==
    IF \E i \in 1..Len(preds) : preds[i].text = text
    THEN CHOOSE i \in 1..Len(preds) :
            /\ preds[i].text = text
            /\ \A j \in 1..(i - 1) : preds[j].text # text
    ELSE 0

\* PredictionCache::update_prediction: the map it leaves and its result.
update_prediction(c, key, old, new) ==
    LET i == IF key \in DOMAIN c THEN FirstIndex(c[key].predictions, old.text) ELSE 0 IN
    IF i = 0
    THEN [cache |-> c, result |-> FALSE]
    ELSE [cache |-> [c EXCEPT ![key].predictions[i] = new], result |-> TRUE]

\* PredictionCache::clear
clear(c) == << >>

\* ---------------------------------------------------- UserLearningSystem
SAVE_INTERVAL == 100

\* PatternData { count, last_used }
PatternData(count, last_used) == [count |-> count, last_used |-> last_used]

\* The map update of UserLearningSystem::record_accepted_prediction
\* (entry(..).or_insert_with(count 0), count += 1, last_used = now).
RecordPatternFresh(pats, text, t) ==
    [k \in (DOMAIN pats) \cup {text} |->
        IF k = text THEN PatternData(1, t) ELSE pats[k]]
RecordPatternEvicting(pats, text, t) ==
    LET old == IF text \in DOMAIN pats THEN pats[text].count ELSE 0 IN
    [k \in {text} |-> PatternData(old + 1, t)]
RecordPatternKeepTime(pats, text, t) ==
    LET old == IF text \in DOMAIN pats THEN pats[text].count ELSE 0 IN
    [k \in (DOMAIN pats) \cup {text} |->
        IF k = text
        THEN PatternData(old + 1, IF text \in DOMAIN pats THEN pats[text].last_used ELSE t)
        ELSE pats[k]]
RecordPattern(pats, text, t) ==
    LET old == IF text \in DOMAIN pats THEN pats[text].count ELSE 0 IN
    [k \in (DOMAIN pats) \cup {text} |->
        IF k = text THEN PatternData(old + 1, t) ELSE pats[k]]

\* The learning file as a sequence of words.  bincode writes a u64, a usize
\* and a u32 as fixed-width integers and a String as its bytes behind their
\* length; a word is either an integer (U64) or the bytes of a string (Str).
U64(n) == [s |-> "", n |-> n]
Str(t) == [s |-> t, n |-> 0]

NoFile == [file |-> "absent"]
File(bytes) == [file |-> "data", bytes |-> bytes]

\* SerializedData { command_patterns, version }
SerializedData(pats, version) == [command_patterns |-> pats, version |-> version]

\* The orders in which a HashMap can be iterated.
IterationOrders(S) ==
    {f \in [1..Cardinality(S) -> S] : \A x \in S : \E i \in DOMAIN f : f[i] = x}

\* The words of the map entries, in the iteration order `order`.
RECURSIVE EntryWords(_, _)
EntryWords(pats, order) ==
    IF order = << >> THEN << >>
    ELSE << Str(Head(order)), U64(pats[Head(order)].count),
            U64(pats[Head(order)].last_used) >>
         \o EntryWords(pats, Tail(order))

\* bincode::serialize(&data): the map's length, its entries in the order the
\* map iterates them, the version.
serialize(data) ==
    { << U64(Cardinality(DOMAIN data.command_patterns)) >>
        \o EntryWords(data.command_patterns, order)
        \o << U64(data.version) >> :
      order \in IterationOrders(DOMAIN data.command_patterns) }

\* bincode::deserialize::<SerializedData>(&buffer): Err when the buffer ends
\* before the value does; an entry read later replaces an earlier one with
\* the same key.
deserializeNoTime(bytes) ==
    IF bytes # << >> /\ Len(bytes) >= 3 * bytes[1].n + 2
    THEN LET n == bytes[1].n
             keys == {bytes[3 * i - 1].s : i \in 1..n}
             at(k) == CHOOSE i \in 1..n :
                          /\ bytes[3 * i - 1].s = k
                          /\ \A j \in 1..n : bytes[3 * j - 1].s = k => j <= i
         IN  Some(SerializedData(
                  [k \in keys |-> PatternData(bytes[3 * at(k)].n, 0)],
                  bytes[3 * n + 2].n))
    ELSE None
deserialize(bytes) ==
    IF bytes # << >> /\ Len(bytes) >= 3 * bytes[1].n + 2
    THEN LET n == bytes[1].n
             keys == {bytes[3 * i - 1].s : i \in 1..n}
             at(k) == CHOOSE i \in 1..n :
                          /\ bytes[3 * i - 1].s = k
                          /\ \A j \in 1..n : bytes[3 * j - 1].s = k => j <= i
         IN  Some(SerializedData(
                  [k \in keys |-> PatternData(bytes[3 * at(k)].n,
                                              bytes[3 * at(k) + 1].n)],
                  bytes[3 * n + 2].n))
    ELSE None

\* What the file system can do to a load: File::open fails; read_to_end
\* fails; both succeed.
LoadOutcomes == {"open_failed", "read_failed", "ok"}

\* UserLearningSystem::load_data on the empty map of UserLearningSystem::new:
\* the pattern map it leaves.
load_dataAnyPrefix(file, io) ==
    IF file.file = "absent" \/ io # "ok" THEN << >>
    ELSE IF file.bytes = << >> THEN << >>
    ELSE LET n == Min(file.bytes[1].n, (Len(file.bytes) - 1) \div 3)
             whole == << U64(n) >> \o SubSeq(file.bytes, 2, 3 * n + 1) \o << U64(1) >>
         IN  deserialize(whole).value.command_patterns
load_data(file, io) ==
    IF file.file = "absent" THEN << >>
    ELSE IF io = "open_failed" THEN << >>
    ELSE IF io = "read_failed" THEN << >>
    ELSE LET data == deserialize(file.bytes) IN
         IF data.some THEN data.value.command_patterns ELSE << >>

\* What the file system can do to a save: File::create fails; it succeeds
\* (the file is now empty) and write_all fails part of the way; both succeed.
SaveOutcomes == {"create_failed", "write_failed", "written"}

\* UserLearningSystem::save_data: the files it can leave behind.
save_data(file, pats, io) ==
    LET buffers == serialize(SerializedData(pats, 1)) IN
    CASE io = "create_failed" -> {file}
      [] io = "write_failed" ->
            UNION {{File(SubSeq(b, 1, k)) : k \in 0..(Len(b) - 1)} : b \in buffers}
      [] io = "written" -> {File(b) : b \in buffers}

\* boost = (pattern.count as f32).min(10.0) / 10.0, in units of 1 / One
BoostHalf(count) == (Min(count, 5) * One) \div 10
Boost(count) == (Min(count, 10) * One) \div 10

\* UserLearningSystem::adjust_scores
adjust_scoresUnclamped(preds, pats) ==
    [i \in 1..Len(preds) |->
        IF preds[i].text \in DOMAIN pats
        THEN [preds[i] EXCEPT
                !.confidence = preds[i].confidence + Boost(pats[preds[i].text].count)]
        ELSE preds[i]]
adjust_scores(preds, pats) ==
    [i \in 1..Len(preds) |->
        IF preds[i].text \in DOMAIN pats
        THEN [preds[i] EXCEPT
                !.confidence = Min(preds[i].confidence + Boost(pats[preds[i].text].count), One)]
        ELSE preds[i]]

\* ------------------------------------------------------ PredictionRanker
\* match prediction.source { History => 1.2, UserPatterns => 1.3,
\*                           GitContext => 1.1, _ => 1.0 }, in tenths
SourceMultiplierFlat(src) == 10
SourceMultiplier(src) ==
    CASE src = "History" -> 12
      [] src = "UserPatterns" -> 13
      [] src = "GitContext" -> 11
      [] OTHER -> 10

\* match prediction.prediction_type { FullCommand => 1.1, _ => 1.0 }, in tenths
TypeMultiplier(ptype) == IF ptype = "FullCommand" THEN 11 ELSE 10

\* usage_boost = min(usage_count, 5) / 5.0 * 0.2, in units of 1 / One
UsageBoostUncapped(usage) == IF usage > 0 THEN (usage * 2 * One) \div 50 ELSE 0
UsageBoost(usage) == IF usage > 0 THEN (Min(usage, 5) * 2 * One) \div 50 ELSE 0

\* The scoring loop body of PredictionRanker::rank for one prediction.
Score(p) ==
    LET s1 == (p.confidence * SourceMultiplier(p.source)) \div 10
        s2 == (s1 * TypeMultiplier(p.prediction_type)) \div 10
        s3 == s2 + UsageBoost(p.usage_count)
    IN  [p EXCEPT !.confidence = Min(s3, One)]

ScoreAll(preds) == [i \in 1..Len(preds) |-> Score(preds[i])]

\* Insert p into a list sorted by descending confidence, after every
\* element that does not compare greater (Vec::sort_by is stable).
RECURSIVE InsertSorted(_, _)
InsertSortedBeforeEqual(sorted, p) ==
    IF sorted = <<>> THEN <<p>>
    ELSE IF Head(sorted).confidence > p.confidence
         THEN <<Head(sorted)>> \o InsertSorted(Tail(sorted), p)
         ELSE <<p>> \o sorted
InsertSorted(sorted, p) ==
    IF sorted = <<>> THEN <<p>>
    ELSE IF Head(sorted).confidence >= p.confidence
         THEN <<Head(sorted)>> \o InsertSorted(Tail(sorted), p)
         ELSE <<p>> \o sorted

\* predictions.sort_by(|a, b| b.confidence.partial_cmp(&a.confidence))
RECURSIVE SortByConfidence(_)
SortByConfidence(preds) ==
    IF preds = <<>> THEN <<>>
    ELSE InsertSorted(SortByConfidence(SubSeq(preds, 1, Len(preds) - 1)),
                      preds[Len(preds)])

\* PredictionRanker::dedup_predictions, with the `seen` set made explicit.
RECURSIVE DedupFrom(_, _)
DedupFromAdjacent(preds, seenTexts) ==
    IF preds = <<>> THEN <<>>
    ELSE IF Head(preds).text \in seenTexts
         THEN DedupFrom(Tail(preds), seenTexts)
         ELSE <<Head(preds)>> \o DedupFrom(Tail(preds), {Head(preds).text})
DedupFrom(preds, seenTexts) ==
    IF preds = <<>> THEN <<>>
    ELSE IF Head(preds).text \in seenTexts
         THEN DedupFrom(Tail(preds), seenTexts)
         ELSE <<Head(preds)>> \o DedupFrom(Tail(preds), seenTexts \cup {Head(preds).text})

dedup_predictions(preds) == DedupFrom(preds, {})

\* rank without its sort.
rankNoSort(preds) == dedup_predictions(ScoreAll(preds))

\* PredictionRanker::rank
rank(preds) == dedup_predictions(SortByConfidence(ScoreAll(preds)))

\* Confidence::is_high_enough_for_ghost: self.0 >= 0.4
is_high_enough_for_ghostStrict(conf) == conf > (4 * One) \div 10
is_high_enough_for_ghost(conf) == conf >= (4 * One) \div 10

\* PredictionRanker::filter_for_ghost: predictions.iter().find(..)
filter_for_ghost(preds) ==
    IF \E i \in 1..Len(preds) : is_high_enough_for_ghost(preds[i].confidence)
    THEN Some(preds[CHOOSE i \in 1..Len(preds) :
                      /\ is_high_enough_for_ghost(preds[i].confidence)
                      /\ \A j \in 1..(i - 1) :
                            ~is_high_enough_for_ghost(preds[j].confidence)])
    ELSE None

\* Vec::truncate
truncate(preds, limit) == SubSeq(preds, 1, Min(limit, Len(preds)))

\* ------------------------------------------------------ PredictionEngine
\* suggestion::context::ProjectType
ProjectType == {"Rust", "Node", "Python", "Go", "Unknown"}

\* The fields of Context the prediction sources read.
Context(git, ptype) == [in_git_repo |-> git, project_type |-> ptype]

\* The contexts ContextAnalyzer::analyze produces in the directories explored.
Contexts == {Context(g, t) : g \in BOOLEAN, t \in {"Rust", "Unknown"}}

\* The limits predict is called with (the terminal loop passes 5).
Limits == {2, 5}

\* command_parser.parse(input, cursor_pos) is Err for these inputs.
ParseFails(input) == input = "'"

\* input.starts_with("git"), over the inputs explored
StartsWithGit(input) == input \in {"git", "git "}

\* PredictionEngine::predict_from_history
predict_from_history(input) ==
    IF input = ""
    THEN << Prediction("ls -la", "FullCommand", "History", 80000),
            Prediction("git status", "FullCommand", "History", 70000) >>
    ELSE IF input = "g"
    THEN << Prediction("git ", "NextToken", "History", 90000) >>
    ELSE IF StartsWithGit(input) /\ input = "git "
    THEN << Prediction("git status", "FullCommand", "History", 85000),
            Prediction("git pull", "FullCommand", "History", 80000) >>
    ELSE << >>

\* PredictionEngine::predict_from_directory_context
predict_from_directory_context(input, ctx) ==
    IF input \in {"", ".", "./"}
    THEN CASE ctx.project_type = "Rust" ->
                << Prediction("cargo run", "FullCommand", "DirectoryContext", 85000),
                   Prediction("cargo build", "FullCommand", "DirectoryContext", 80000) >>
           [] ctx.project_type = "Node" ->
                << Prediction("npm run dev", "FullCommand", "DirectoryContext", 85000),
                   Prediction("npm install", "FullCommand", "DirectoryContext", 80000) >>
           [] OTHER -> << >>
    ELSE << >>

\* PredictionEngine::predict_from_project_context
predict_from_project_context(input, ctx) ==
    IF input = ""
    THEN CASE ctx.project_type = "Rust" ->
                << Prediction("cargo test", "FullCommand", "ProjectType", 70000) >>
           [] ctx.project_type = "Python" ->
                << Prediction("python -m venv .venv", "FullCommand", "ProjectType", 70000) >>
           [] OTHER -> << >>
    ELSE << >>

\* PredictionEngine::predict_from_git_context
predict_from_git_context(input, ctx) ==
    IF input = ""
    THEN << Prediction("git status", "FullCommand", "GitContext", 80000) >>
    ELSE IF input = "git "
    THEN << Prediction("git checkout ", "NextToken", "GitContext", 70000),
            Prediction("git pull origin main", "FullCommand", "GitContext", 75000) >>
    ELSE << >>

\* The four source tasks of generate_predictions, by the sender each owns.
Sources == {"tx1", "tx2", "tx3", "tx4"}

\* What the task owning sender tx computes.
SourceOutput(tx, input, ctx) ==
    CASE tx = "tx1" -> predict_from_history(input)
      [] tx = "tx2" -> predict_from_directory_context(input, ctx)
      [] tx = "tx3" -> predict_from_project_context(input, ctx)
      [] tx = "tx4" -> predict_from_git_context(input, ctx)

\* The tasks generate_predictions spawns: the fourth only in a git repository.
SpawnedAlways(ctx) == Sources
Spawned(ctx) == IF ctx.in_git_repo THEN Sources ELSE Sources \ {"tx4"}

\* The senders alive once `drop(tx)` has run: tx1..tx4 were all cloned, each
\* is dropped by the task it was moved into, and a clone that was moved into
\* no task stays in the frame of generate_predictions until it returns.
SendersAfterSpawn(ctx) == Sources

\* Lines 124-131 of generate_predictions: adjust, rank, truncate.
FinalListRankTwice(all, pats, limit) ==
    truncate(rank(rank(adjust_scores(all, pats))), limit)
FinalList(all, pats, limit) == truncate(rank(adjust_scores(all, pats)), limit)

\* ------------------------------------------------------------------ state
VARIABLES
    now,                \* the clock: Instant::now() and SystemTime::now()
    max_entries,        \* PredictionCache.max_entries
    cache,              \* PredictionCache.cache: key -> CacheEntry
    command_patterns,   \* UserLearningSystem.command_patterns: text -> PatternData
    modification_count, \* UserLearningSystem.modification_count
    disk,               \* the contents of learning_data.bin
    calls,              \* the predict calls in flight
    last,               \* the operation that just returned, with its result
    seen,               \* history: per input, the lists returned since the
                        \* entry was stored to calls that found it live
    populated,          \* history: per input, the context and list of the
                        \* predict that last stored an entry after finding
                        \* none live
    predictions,        \* the Vec<Prediction> handed to the ranker or to
                        \* the learning system as `&mut`
    saved,              \* history: the pattern map the file was written
                        \* from, when a completed save wrote it last
    terminal,           \* Terminal::run: its locals current_input and
                        \* dropdown_visible, GhostTextRenderer.current_ghost,
                        \* and where the loop stands
    current_dir,        \* the process's current directory: the entries
                        \* ContextAnalyzer looks for, and what running git
                        \* in it comes to
    returned            \* history: per caller, the list its predict came
                        \* back with from generate_predictions and the
                        \* callers then still in generate_predictions for
                        \* the same input

vars == << now, max_entries, cache, command_patterns, modification_count,
           disk, calls, last, seen, populated, predictions, saved, terminal,
           current_dir, returned >>

\* The callers of predict: the terminal loop awaits each call.
Calls == {"c1"}

\* PredictionCache::new(1000, Duration::from_secs(300)) in PredictionEngine::new
EngineMaxEntries == 1000

\* The texts whose acceptance is recorded.
AcceptTexts == {"git status"}

IdleCall == [pc |-> "idle"]

\* What `Command::new("git").args(["rev-parse", "--is-inside-work-tree"])
\* .current_dir(dir).output()` comes to: Err (git cannot be started), or Ok
\* with a zero or a non-zero exit status.
GitOutcomes == {"spawn_error", "success", "failure"}

\* A directory: the entries the analyzer tests with `dir.join(..).exists()`
\* that are there, and the outcome of git in it.
Dir(entries, git) == [entries |-> entries, git |-> git]

\* The root of a Rust project under git.
RepoDir == Dir({".git", "Cargo.toml"}, "success")

\* Terminal::run before its loop (`String::new()`, `false`) and
\* GhostTextRenderer::new (`current_ghost: None`).  `shown` and `rendered`
\* are history: the prediction current_ghost was taken from, and whether the
\* ghost is on the screen (printed for the last change of the line and not
\* erased since).
TerminalNew ==
    [pc |-> "read", current_input |-> "", dropdown_visible |-> FALSE,
     current_ghost |-> None, shown |-> None, rendered |-> FALSE]
NoOp == [op |-> "none"]

Init ==
    /\ now = 0
    /\ max_entries = EngineMaxEntries
    /\ cache = << >>
    /\ command_patterns = << >>
    /\ modification_count = 0
    /\ disk = NoFile
    /\ calls = [c \in Calls |-> IdleCall]
    /\ last = NoOp
    /\ seen = [i \in Keys |-> {}]
    /\ populated = [i \in Keys |-> None]
    /\ predictions = << >>
    /\ saved = None
    /\ terminal = TerminalNew
    /\ returned = [c \in DOMAIN calls |-> None]
    /\ current_dir = RepoDir

\* Time passes.
Tick ==
    /\ now < MaxTime
    /\ now' = now + 1
    /\ last' = NoOp
    /\ UNCHANGED << returned, current_dir, terminal, max_entries, cache, command_patterns, modification_count,
                    disk, calls, seen, populated, predictions, saved >>

\* The entry for key exists and is younger than the TTL.
Live(key) == key \in DOMAIN cache /\ now - cache[key].timestamp < TTL

\* PredictionEngine::predict up to the spawn of the source tasks: the cache
\* hit, the parse failure, or context analysis and the fan-out.
PredictStartIgnoresParse(c, input, limit, ctx) ==
    /\ calls[c].pc = "idle"
    /\ LET hit == get(cache, input, now)
           ret(h, r) == [op |-> "predict", input |-> input, limit |-> limit,
                         ctx |-> ctx, live |-> Live(input), hit |-> h,
                         panicked |-> {}, result |-> r]
       IN  IF hit.some
           THEN /\ last' = ret(TRUE, hit.value)
                /\ seen' = [seen EXCEPT ![input] =
                               IF Live(input) THEN @ \cup {hit.value} ELSE @]
                /\ UNCHANGED calls
           ELSE /\ calls' = [calls EXCEPT ![c] =
                                [pc |-> "collect", input |-> input, limit |-> limit,
                                 ctx |-> ctx, live |-> Live(input),
                                 tasks |-> Spawned(ctx),
                                 senders |-> SendersAfterSpawn(ctx),
                                 panicked |-> {},
                                 all_predictions |-> << >>]]
                /\ last' = NoOp
                /\ UNCHANGED seen
    /\ UNCHANGED << current_dir, now, max_entries, cache, command_patterns, modification_count,
                    disk, populated, predictions, saved >>

PredictStartTouch(c, input, limit, ctx) ==
    /\ calls[c].pc = "idle"
    /\ LET hit == get(cache, input, now)
           ret(h, r) == [op |-> "predict", input |-> input, limit |-> limit,
                         ctx |-> ctx, live |-> Live(input), hit |-> h,
                         panicked |-> {}, result |-> r]
       IN  IF hit.some
           THEN /\ last' = ret(TRUE, hit.value)
                /\ seen' = [seen EXCEPT ![input] =
                               IF Live(input) THEN @ \cup {hit.value} ELSE @]
                /\ UNCHANGED calls
                /\ cache' = Insert(cache, input, CacheEntry(hit.value, now))
           ELSE IF ParseFails(input)
           THEN /\ last' = ret(FALSE, << >>)
                /\ seen' = [seen EXCEPT ![input] = IF Live(input) THEN @ \cup {<< >>} ELSE @]
                /\ UNCHANGED calls
                /\ UNCHANGED cache
           ELSE /\ calls' = [calls EXCEPT ![c] =
                                [pc |-> "collect", input |-> input, limit |-> limit,
                                 ctx |-> ctx, live |-> Live(input),
                                 tasks |-> Spawned(ctx),
                                 senders |-> SendersAfterSpawn(ctx),
                                 panicked |-> {},
                                 all_predictions |-> << >>]]
                /\ last' = NoOp
                /\ UNCHANGED seen
                /\ UNCHANGED cache
    /\ UNCHANGED << current_dir, now, max_entries, command_patterns, modification_count,
                    disk, populated, predictions, saved >>

PredictStart(c, input, limit, ctx) ==
    /\ calls[c].pc = "idle"
    /\ LET hit == get(cache, input, now)
           ret(h, r) == [op |-> "predict", input |-> input, limit |-> limit,
                         ctx |-> ctx, live |-> Live(input), hit |-> h,
                         panicked |-> {}, result |-> r]
       IN  IF hit.some
           THEN /\ last' = ret(TRUE, hit.value)
                /\ seen' = [seen EXCEPT ![input] =
                               IF Live(input) THEN @ \cup {hit.value} ELSE @]
                /\ UNCHANGED calls
           ELSE IF ParseFails(input)
           THEN /\ last' = ret(FALSE, << >>)
                /\ seen' = [seen EXCEPT ![input] = IF Live(input) THEN @ \cup {<< >>} ELSE @]
                /\ UNCHANGED calls
           ELSE /\ calls' = [calls EXCEPT ![c] =
                                [pc |-> "collect", input |-> input, limit |-> limit,
                                 ctx |-> ctx, live |-> Live(input),
                                 tasks |-> Spawned(ctx),
                                 senders |-> SendersAfterSpawn(ctx),
                                 panicked |-> {},
                                 all_predictions |-> << >>]]
                /\ last' = NoOp
                /\ UNCHANGED seen
    /\ UNCHANGED << current_dir, now, max_entries, cache, command_patterns, modification_count,
                    disk, populated, predictions, saved >>

\* A spawned source task runs: it sends its output and drops its sender.
\* The channel holds 8 messages, so the send never waits, and it is FIFO with
\* one receiver, so `all_predictions.append` sees the outputs in the order
\* they were sent: the send and its receipt are one step.
SourceTask(c, tx) ==
    /\ calls[c].pc = "collect"
    /\ tx \in calls[c].tasks
    /\ calls' = [calls EXCEPT
                    ![c].tasks = @ \ {tx},
                    ![c].senders = @ \ {tx},
                    ![c].all_predictions =
                        @ \o SourceOutput(tx, calls[c].input, calls[c].ctx)]
    /\ last' = NoOp
    /\ UNCHANGED << returned, current_dir, terminal, now, max_entries, cache, command_patterns, modification_count,
                    disk, seen, populated, predictions, saved >>

\* A spawned source task panics: tokio::spawn confines the panic to the task,
\* whose future is dropped, and its sender with it.  One task per call fails.
SourcePanic(c, tx) ==
    /\ calls[c].pc = "collect"
    /\ tx \in calls[c].tasks
    /\ calls[c].panicked = {}
    /\ calls' = [calls EXCEPT
                    ![c].tasks = @ \ {tx},
                    ![c].senders = @ \ {tx},
                    ![c].panicked = @ \cup {tx}]
    /\ last' = NoOp
    /\ UNCHANGED << returned, current_dir, terminal, now, max_entries, cache, command_patterns, modification_count,
                    disk, seen, populated, predictions, saved >>

\* rx.recv() yields None (every sender is dropped): learning adjustment,
\* ranking, truncation, the cache write, the return.
FinishDropsResult(c) ==
    /\ calls[c].pc = "collect"
    /\ calls[c].senders = {}
    /\ LET call == calls[c]
           result == FinalList(call.all_predictions, command_patterns, call.limit)
           before == IF call.live THEN seen[call.input] ELSE {}
       IN  /\ cache' = cache
           /\ last' = [op |-> "predict", input |-> call.input, limit |-> call.limit,
                       ctx |-> call.ctx, live |-> call.live, hit |-> FALSE,
                       panicked |-> call.panicked, result |-> result]
           /\ seen' = [seen EXCEPT ![call.input] =
                          IF result # << >> THEN before \cup {result}
                          ELSE IF call.live THEN @ \cup {result} ELSE @]
           /\ populated' = [populated EXCEPT ![call.input] =
                          IF result # << >> /\ ~call.live
                          THEN Some([ctx |-> call.ctx, result |-> result])
                          ELSE @]
    /\ calls' = [calls EXCEPT ![c] = IdleCall]
    /\ UNCHANGED << current_dir, now, max_entries, command_patterns, modification_count, disk,
                    predictions, saved >>
FinishStoresUntruncated(c) ==
    /\ calls[c].pc = "collect"
    /\ calls[c].senders = {}
    /\ LET call == calls[c]
           result == FinalList(call.all_predictions, command_patterns, call.limit)
           before == IF call.live THEN seen[call.input] ELSE {}
       IN  /\ \E c2 \in set(cache, call.input,
                           FinalList(call.all_predictions, command_patterns,
                                     Len(call.all_predictions)),
                           now, max_entries) : cache' = c2
           /\ last' = [op |-> "predict", input |-> call.input, limit |-> call.limit,
                       ctx |-> call.ctx, live |-> call.live, hit |-> FALSE,
                       panicked |-> call.panicked, result |-> result]
           /\ seen' = [seen EXCEPT ![call.input] =
                          IF result # << >> THEN before \cup {result}
                          ELSE IF call.live THEN @ \cup {result} ELSE @]
           /\ populated' = [populated EXCEPT ![call.input] =
                          IF result # << >> /\ ~call.live
                          THEN Some([ctx |-> call.ctx, result |-> result])
                          ELSE @]
    /\ calls' = [calls EXCEPT ![c] = IdleCall]
    /\ UNCHANGED << current_dir, now, max_entries, command_patterns, modification_count, disk,
                    predictions, saved >>
Finish(c) ==
    /\ calls[c].pc = "collect"
    /\ calls[c].senders = {}
    /\ LET call == calls[c]
           result == FinalList(call.all_predictions, command_patterns, call.limit)
           before == IF call.live THEN seen[call.input] ELSE {}
       IN  /\ \E c2 \in set(cache, call.input, result, now, max_entries) : cache' = c2
           /\ last' = [op |-> "predict", input |-> call.input, limit |-> call.limit,
                       ctx |-> call.ctx, live |-> call.live, hit |-> FALSE,
                       panicked |-> call.panicked, result |-> result]
           /\ seen' = [seen EXCEPT ![call.input] =
                          IF result # << >> THEN before \cup {result}
                          ELSE IF call.live THEN @ \cup {result} ELSE @]
           /\ populated' = [populated EXCEPT ![call.input] =
                          IF result # << >> /\ ~call.live
                          THEN Some([ctx |-> call.ctx, result |-> result])
                          ELSE @]
    /\ calls' = [calls EXCEPT ![c] = IdleCall]
    /\ UNCHANGED << current_dir, now, max_entries, command_patterns, modification_count, disk,
                    predictions, saved >>

\* UserLearningSystem::record_accepted_prediction, when the file system
\* answers a save with `io`: the map update, the counter, the save every
\* SAVE_INTERVAL-th call.
record_accepted_prediction(text, io) ==
    /\ command_patterns' = RecordPattern(command_patterns, text, now)
    /\ modification_count' = modification_count + 1
    /\ IF modification_count % SAVE_INTERVAL = 0
       THEN /\ disk' \in save_data(disk, command_patterns', io)
            /\ saved' = CASE io = "written" -> Some(command_patterns')
                          [] io = "write_failed" -> None
                          [] io = "create_failed" -> saved
       ELSE /\ disk' = disk
            /\ saved' = saved
    /\ last' = [op |-> "record", text |-> text,
                save |-> IF modification_count % SAVE_INTERVAL = 0 THEN io ELSE "none"]
    /\ UNCHANGED << returned, current_dir, terminal, now, max_entries, cache, calls, seen, populated, predictions >>

\* PredictionEngine::record_prediction_accepted, which is
\* UserLearningSystem::record_accepted_prediction; the file system works.
RecordAccepted(text) ==
    /\ modification_count < MaxAccepts
    /\ record_accepted_prediction(text, "written")

Next ==
    \/ \E c \in DOMAIN calls, input \in Inputs, limit \in Limits, ctx \in Contexts :
          PredictStart(c, input, limit, ctx) /\ UNCHANGED << terminal, returned >>
    \/ \E c \in DOMAIN calls, tx \in Sources : SourceTask(c, tx)
    \/ \E c \in DOMAIN calls : Finish(c) /\ UNCHANGED << terminal, returned >>
    \/ \E text \in AcceptTexts : RecordAccepted(text)
    \/ Tick

\* The engine: predict calls, acceptance recording, the clock.
Spec == Init /\ [][Next]_vars

\* A source task can panic: tokio::spawn confines the panic to the task.
FaultNext ==
    \/ Next
    \/ \E c \in DOMAIN calls, tx \in Sources : SourcePanic(c, tx)

\* The engine when source tasks may panic.
FaultSpec == Init /\ [][FaultNext]_vars

\* ------------------------------------------- PredictionCache called directly
pLs == Prediction("ls -la", "FullCommand", "History", 80000)
pGitH == Prediction("git status", "FullCommand", "History", 70000)
pGitG == Prediction("git status", "FullCommand", "GitContext", 80000)
pRun == Prediction("cargo run", "FullCommand", "DirectoryContext", 85000)

\* The lists `set` is called with.
SetLists == { << >>, << pGitH, pLs, pGitG >> }

\* The `old_prediction`s update_prediction is called with.
OldPredictions == {pGitH, pRun}

CacheInit ==
    /\ now = 0
    /\ max_entries \in 1..MaxEntries
    /\ cache = << >>
    /\ command_patterns = << >>
    /\ modification_count = 0
    /\ disk = NoFile
    /\ calls = [c \in Calls |-> IdleCall]
    /\ last = NoOp
    /\ seen = [i \in Keys |-> {}]
    /\ populated = [i \in Keys |-> None]
    /\ predictions = << >>
    /\ saved = None
    /\ terminal = TerminalNew
    /\ returned = [c \in DOMAIN calls |-> None]
    /\ current_dir = RepoDir

CacheFrame ==
    UNCHANGED << returned, current_dir, terminal, now, max_entries, command_patterns, modification_count, disk,
                 calls, seen, populated, predictions, saved >>

Set(key, preds) ==
    /\ \E c2 \in set(cache, key, preds, now, max_entries) :
          /\ cache' = c2
          /\ last' = [op |-> "set", key |-> key, predictions |-> preds,
                      replaced |-> key \in DOMAIN cache,
                      removed |-> [k \in (DOMAIN cache) \ (DOMAIN c2) |->
                                      cache[k].timestamp]]
    /\ CacheFrame

Get(key) ==
    /\ last' = [op |-> "get", key |-> key, result |-> get(cache, key, now)]
    /\ UNCHANGED cache
    /\ CacheFrame

Contains(key) ==
    /\ last' = [op |-> "contains", key |-> key, result |-> contains(cache, key, now)]
    /\ UNCHANGED cache
    /\ CacheFrame

UpdatePrediction(key, old, new) ==
    /\ LET r == update_prediction(cache, key, old, new) IN
          /\ cache' = r.cache
          /\ last' = [op |-> "update_prediction", key |-> key, old |-> old,
                      new |-> new, result |-> r.result]
    /\ CacheFrame

Clear ==
    /\ cache' = clear(cache)
    /\ last' = [op |-> "clear"]
    /\ CacheFrame

CacheNext ==
    \/ \E key \in Keys, preds \in SetLists : Set(key, preds)
    \/ \E key \in Keys : Get(key)
    \/ \E key \in Keys : Contains(key)
    \/ \E key \in Keys, old \in OldPredictions : UpdatePrediction(key, old, pRun)
    \/ Clear
    \/ Tick

\* The cache under any sequence of its own operations.
CacheSpec == CacheInit /\ [][CacheNext]_vars

\* The engine when its cache can also be cleared between calls.
ClearNext ==
    \/ Next
    \/ Clear

ClearSpec == Init /\ [][ClearNext]_vars

\* --------------------------------------------- PredictionRanker called directly
\* Longest list handed to the ranker.
MaxLen == 3

pCargoH == Prediction("cargo run", "FullCommand", "History", 90000)
pCd == Prediction("cd ", "NextToken", "DirectoryContext", 40000)
pCdU == [Prediction("cd ", "NextToken", "UserPatterns", 20000) EXCEPT !.usage_count = 7]
pLsU == [Prediction("ls", "NextToken", "CommandPatterns", 30000) EXCEPT !.usage_count = 3]
pFlag == Prediction("ls -l", "Flag", "CommandPatterns", 30000)
\* Confidence(pub f32) is not range-checked: 1.5 and -0.5
pOver == Prediction("npm install", "FullCommand", "DirectoryContext", 150000)
pNeg == Prediction("cd ..", "NextToken", "DirectoryContext", 0 - 50000)

\* The candidates the lists handed to the ranker are made of.
Candidates == {pLs, pGitH, pGitG, pRun, pCargoH, pCd, pCdU, pLsU, pFlag,
               pOver, pNeg}

\* The lists handed to the ranker.
RankInputs == UNION {[1..n -> Candidates] : n \in 0..MaxLen}

RankInit ==
    /\ now = 0
    /\ max_entries = EngineMaxEntries
    /\ cache = << >>
    /\ command_patterns = << >>
    /\ modification_count = 0
    /\ disk = NoFile
    /\ calls = [c \in Calls |-> IdleCall]
    /\ last = NoOp
    /\ seen = [i \in Keys |-> {}]
    /\ populated = [i \in Keys |-> None]
    /\ predictions \in RankInputs
    /\ saved = None
    /\ terminal = TerminalNew
    /\ returned = [c \in DOMAIN calls |-> None]
    /\ current_dir = RepoDir

RankFrame ==
    UNCHANGED << returned, current_dir, terminal, now, max_entries, cache, command_patterns, modification_count,
                 disk, calls, seen, populated, saved >>

\* prediction_ranker.rank(&mut predictions)
Rank ==
    /\ predictions' = rank(predictions)
    /\ last' = [op |-> "rank", input |-> predictions]
    /\ RankFrame

\* prediction_ranker.filter_for_ghost(&predictions)
FilterForGhost ==
    /\ last' = [op |-> "filter_for_ghost", result |-> filter_for_ghost(predictions)]
    /\ UNCHANGED predictions
    /\ RankFrame

RankNext ==
    \/ Rank
    \/ FilterForGhost

\* The ranker on any list of candidates.
RankSpec == RankInit /\ [][RankNext]_vars

\* ------------------------------------------- UserLearningSystem called directly
\* Largest number of recorded acceptances of one text.
MaxCount == 11

\* The texts whose acceptance is recorded.
LearnTexts == {"git status", "ls -la"}

pZero == Prediction("git status", "FullCommand", "History", 0)
pFull == Prediction("ls -la", "FullCommand", "History", One)

\* The lists handed to adjust_scores.
AdjustInputs ==
    { << >>, << pRun >>, << pGitH, pLs, pGitG >>, << pFull, pZero >> }

LearnInit ==
    /\ now = 0
    /\ max_entries = EngineMaxEntries
    /\ cache = << >>
    /\ command_patterns = << >>
    /\ modification_count = 0
    /\ disk = NoFile
    /\ calls = [c \in Calls |-> IdleCall]
    /\ last = NoOp
    /\ seen = [i \in Keys |-> {}]
    /\ populated = [i \in Keys |-> None]
    /\ predictions \in AdjustInputs
    /\ saved = None
    /\ terminal = TerminalNew
    /\ returned = [c \in DOMAIN calls |-> None]
    /\ current_dir = RepoDir

\* The number of acceptances recorded for text.
Count(text) == IF text \in DOMAIN command_patterns THEN command_patterns[text].count ELSE 0

\* record_accepted_prediction with a working file system.
RecordLearned(text) ==
    /\ Count(text) < MaxCount
    /\ record_accepted_prediction(text, "written")

\* user_learning.adjust_scores(&mut predictions, input)
AdjustScores ==
    /\ predictions' = adjust_scores(predictions, command_patterns)
    /\ last' = [op |-> "adjust_scores", input |-> predictions]
    /\ UNCHANGED << returned, current_dir, terminal, now, max_entries, cache, command_patterns, modification_count,
                    disk, calls, seen, populated, saved >>

LearnNext ==
    \/ \E text \in LearnTexts : RecordLearned(text)
    \/ AdjustScores

\* The learning system: acceptances recorded, scores adjusted.
LearnSpec == LearnInit /\ [][LearnNext]_vars

\* ---------------------------------------- UserLearningSystem and its data file
\* Largest number of recorded acceptances of one text when the file system
\* can fail and the process can restart.
MaxSaved == 2

\* record_accepted_prediction when the file system can fail.
RecordPersist(text, io) ==
    /\ Count(text) < MaxSaved
    /\ record_accepted_prediction(text, io)

\* The process stops and UserLearningSystem::new runs on the same data
\* directory: an empty map, a zero counter, then load_data.
Restart(io) ==
    /\ command_patterns' = load_data(disk, io)
    /\ modification_count' = 0
    /\ last' = [op |-> "new", io |-> io]
    /\ UNCHANGED << returned, current_dir, terminal, now, max_entries, cache, disk, calls, seen, populated,
                    predictions, saved >>

PersistNext ==
    \/ \E text \in LearnTexts, io \in SaveOutcomes : RecordPersist(text, io)
    \/ \E io \in LoadOutcomes : Restart(io)
    \/ Tick

\* The learning system over restarts, with a file system that can fail.
PersistSpec == Init /\ [][PersistNext]_vars

\* ------------------------------------------------------------ Terminal::run
\* The command lines the user types.
TermInputs == Inputs

\* Prediction::get_ghost_text: the whole text for an empty input, the rest of
\* the text when it starts with the input, else nothing.  No candidate text
\* of this model starts with "." or "'".
get_ghost_text(p, input) == IF input = "" THEN p.text ELSE ""

\* Lines 136-140 of Terminal::run with GhostTextRenderer::render_ghost_text
\* (ghost text is enabled): the first prediction becomes the ghost when
\* predict took under 5 ms (`fast`) and returned something; otherwise
\* current_ghost keeps what it held, since clear_ghost_text takes `&self`.
render_ghost_text(term, result, fast) ==
    IF fast /\ result # << >>
    THEN LET ghost_text == get_ghost_text(result[1], term.current_input) IN
         IF ghost_text = ""
         THEN [term EXCEPT !.pc = "read", !.current_ghost = None, !.shown = None,
                           !.rendered = FALSE]
         ELSE [term EXCEPT !.pc = "read", !.current_ghost = Some(ghost_text),
                           !.shown = Some(result[1]), !.rendered = TRUE]
    ELSE [term EXCEPT !.pc = "read", !.rendered = FALSE]

\* Any key but Tab, Right and Ctrl-C, when the command line now reads
\* new_input and differs from current_input: clear_ghost_text, which erases
\* the ghost from the screen and leaves current_ghost as it is (it takes
\* `&self`), the dropdown refresh (`suggestions`: whether the suggestion
\* engine has any) and the call of predict(&current_input, 5), whose return
\* on a hit or a parse failure is rendered at once.
KeyOther(new_input, ctx, suggestions, fast) ==
    /\ terminal.pc = "read"
    /\ new_input # terminal.current_input
    /\ PredictStart("c1", new_input, 5, ctx)
    /\ LET term == [terminal EXCEPT
                       !.current_input = new_input,
                       !.rendered = FALSE,
                       !.dropdown_visible = @ /\ suggestions]
       IN  terminal' = IF calls'["c1"].pc = "idle"
                       THEN render_ghost_text(term, last'.result, fast)
                       ELSE [term EXCEPT !.pc = "await"]
    /\ UNCHANGED returned

\* predict returns from generate_predictions and the ghost is rendered.
KeyOtherReturn(fast) ==
    /\ terminal.pc = "await"
    /\ Finish("c1")
    /\ terminal' = render_ghost_text(terminal, last'.result, fast)
    /\ UNCHANGED returned

\* accept_ghost (`current_ghost.take()`), apply_completion and
\* `current_input = get_current_command_line()`: the line with the ghost
\* appended.
AcceptGhost(key) ==
    /\ terminal' = [terminal EXCEPT
                       !.current_ghost = None,
                       !.shown = None,
                       !.rendered = FALSE,
                       !.current_input = @ \o terminal.current_ghost.value]
    /\ last' = [op |-> "accept", key |-> key,
                line |-> terminal.current_input,
                ghost |-> terminal.current_ghost.value,
                prediction |-> terminal.shown.value]

TermFrame ==
    UNCHANGED << returned, current_dir, now, max_entries, cache, command_patterns, modification_count,
                 disk, calls, seen, populated, predictions, saved >>

\* The Tab key: nothing while the dropdown is visible, else the ghost is
\* accepted, else the dropdown is shown when there are suggestions.
KeyTab(suggestions) ==
    /\ terminal.pc = "read"
    /\ IF terminal.dropdown_visible
       THEN /\ UNCHANGED terminal
            /\ last' = [op |-> "tab"]
       ELSE IF terminal.current_ghost.some
       THEN AcceptGhost("Tab")
       ELSE /\ terminal' = [terminal EXCEPT !.dropdown_visible = suggestions]
            /\ last' = [op |-> "tab"]
    /\ TermFrame

\* The Right key: the ghost is accepted when the cursor is at the end of the
\* line (`at_end`) and there is one.
KeyRight(at_end) ==
    /\ terminal.pc = "read"
    /\ IF at_end /\ terminal.current_ghost.some
       THEN AcceptGhost("Right")
       ELSE /\ UNCHANGED terminal
            /\ last' = [op |-> "right"]
    /\ TermFrame

TermNext ==
    \/ \E new_input \in TermInputs, ctx \in Contexts, suggestions \in BOOLEAN,
          fast \in BOOLEAN : KeyOther(new_input, ctx, suggestions, fast)
    \/ \E tx \in Sources : SourceTask("c1", tx)
    \/ \E fast \in BOOLEAN : KeyOtherReturn(fast)
    \/ \E suggestions \in BOOLEAN : KeyTab(suggestions)
    \/ \E at_end \in BOOLEAN : KeyRight(at_end)
    \/ Tick

\* The terminal loop: it owns the prediction engine and is its only caller.
TermSpec == Init /\ [][TermNext]_vars

\* --------------------------------------------------------- ContextAnalyzer
\* The directory entries the analyzer looks for.
DirEntries == {".git", "Cargo.toml", "package.json", "requirements.txt",
               "setup.py", "go.mod"}

\* ContextAnalyzer::is_git_repository: the answer, and whether git was run.
is_git_repositoryAnyOutput(dir) ==
    IF ".git" \in dir.entries
    THEN [result |-> TRUE, invoked |-> FALSE]
    ELSE [result |-> dir.git # "spawn_error", invoked |-> TRUE]
is_git_repository(dir) ==
    IF ".git" \in dir.entries
    THEN [result |-> TRUE, invoked |-> FALSE]
    ELSE [result |-> CASE dir.git = "success" -> TRUE
                       [] dir.git = "failure" -> FALSE
                       [] dir.git = "spawn_error" -> FALSE,
          invoked |-> TRUE]

\* ContextAnalyzer::detect_project_type
detect_project_type(dir) ==
    IF "Cargo.toml" \in dir.entries THEN "Rust"
    ELSE IF "package.json" \in dir.entries THEN "Node"
    ELSE IF "requirements.txt" \in dir.entries \/ "setup.py" \in dir.entries
         THEN "Python"
    ELSE IF "go.mod" \in dir.entries THEN "Go"
    ELSE "Unknown"

\* ContextAnalyzer::analyze
analyze(dir) == Context(is_git_repository(dir).result, detect_project_type(dir))

AnalyzeInit ==
    /\ now = 0
    /\ max_entries = EngineMaxEntries
    /\ cache = << >>
    /\ command_patterns = << >>
    /\ modification_count = 0
    /\ disk = NoFile
    /\ calls = [c \in Calls |-> IdleCall]
    /\ last = NoOp
    /\ seen = [i \in Keys |-> {}]
    /\ populated = [i \in Keys |-> None]
    /\ predictions = << >>
    /\ saved = None
    /\ terminal = TerminalNew
    /\ returned = [c \in DOMAIN calls |-> None]
    /\ current_dir \in {Dir(e, g) : e \in SUBSET DirEntries, g \in GitOutcomes}

\* context_analyzer.analyze(input, &parsed) in the current directory
Analyze ==
    /\ last' = [op |-> "analyze", result |-> analyze(current_dir),
                git_invoked |-> is_git_repository(current_dir).invoked]
    /\ UNCHANGED << returned, current_dir, terminal, now, max_entries, cache,
                    command_patterns, modification_count, disk, calls, seen,
                    populated, predictions, saved >>

AnalyzeNext == Analyze

\* The analyzer in any directory.
AnalyzeSpec == AnalyzeInit /\ [][AnalyzeNext]_vars

\* ------------------------- record_accepted_prediction called concurrently
\* The threads that call record_accepted_prediction on one
\* UserLearningSystem (`&self`, behind RwLock and AtomicUsize).
Threads == {"t1", "t2"}

\* Most calls made when two texts are recorded.
MaxConcurrent == 4

\* Most calls made when one text is recorded: one more than SAVE_INTERVAL,
\* so that a second save happens.
MaxRace == 101

\* A thread between calls; `done` is history: the calls it has completed.
IdleThread(done) == [pc |-> "idle", done |-> done]

ConcInit ==
    /\ now = 0
    /\ max_entries = EngineMaxEntries
    /\ cache = << >>
    /\ command_patterns = << >>
    /\ modification_count = 0
    /\ disk = NoFile
    /\ calls = [t \in Threads |-> IdleThread(0)]
    /\ last = NoOp
    /\ seen = [i \in Keys |-> {}]
    /\ populated = [i \in Keys |-> None]
    /\ predictions = << >>
    /\ saved = None
    /\ terminal = TerminalNew
    /\ returned = [c \in DOMAIN calls |-> None]
    /\ current_dir = RepoDir

\* The calls begun so far.
RECURSIVE SumOver(_, _)
SumOver(f, S) ==
    IF S = {} THEN 0
    ELSE LET x == CHOOSE x \in S : TRUE IN f[x] + SumOver(f, S \ {x})
Begun ==
    SumOver([t \in DOMAIN calls |->
                calls[t].done + IF calls[t].pc = "idle" THEN 0 ELSE 1],
            DOMAIN calls)

ConcFrame ==
    UNCHANGED << returned, current_dir, terminal, now, max_entries, cache, seen,
                 populated, predictions >>

\* Lines 68-79 of record_accepted_prediction: the map update, under the
\* write lock of command_patterns.
RecordUpdate(t, text, max) ==
    /\ calls[t].pc = "idle"
    /\ Begun < max
    /\ command_patterns' = RecordPattern(command_patterns, text, now)
    /\ calls' = [calls EXCEPT ![t] = [pc |-> "count", done |-> @.done]]
    /\ last' = NoOp
    /\ UNCHANGED << modification_count, disk, saved >>
    /\ ConcFrame

\* Lines 82-84: `fetch_add(1, SeqCst)` and the test of the value it returns.
RecordCount(t) ==
    /\ calls[t].pc = "count"
    /\ modification_count' = modification_count + 1
    /\ IF modification_count % SAVE_INTERVAL = 0
       THEN /\ calls' = [calls EXCEPT ![t] = [pc |-> "snapshot", done |-> @.done]]
            /\ last' = NoOp
       ELSE /\ calls' = [calls EXCEPT ![t] = IdleThread(@.done + 1)]
            /\ last' = [op |-> "record", thread |-> t, save |-> "none"]
    /\ UNCHANGED << command_patterns, disk, saved >>
    /\ ConcFrame

\* Lines 125-130 of save_data: the clone of the map under the read lock and
\* its serialization.
SaveSnapshot(t) ==
    /\ calls[t].pc = "snapshot"
    /\ \E buffer \in serialize(SerializedData(command_patterns, 1)) :
          calls' = [calls EXCEPT ![t] =
                       [pc |-> "create", done |-> @.done, serialized |-> buffer]]
    /\ last' = NoOp
    /\ UNCHANGED << command_patterns, modification_count, disk, saved >>
    /\ ConcFrame

\* Line 131: File::create truncates the file and opens it at offset 0.
SaveCreate(t) ==
    /\ calls[t].pc = "create"
    /\ disk' = File(<< >>)
    /\ calls' = [calls EXCEPT ![t].pc = "write"]
    /\ last' = NoOp
    /\ UNCHANGED << command_patterns, modification_count, saved >>
    /\ ConcFrame

\* What a file holds after `buffer` is written at offset 0.
WriteAtStart(bytes, buffer) ==
    buffer \o SubSeq(bytes, Len(buffer) + 1, Len(bytes))

\* Line 132: write_all through this thread's handle, and the return.
SaveWrite(t) ==
    /\ calls[t].pc = "write"
    /\ disk' = File(WriteAtStart(disk.bytes, calls[t].serialized))
    /\ saved' = LET data == deserialize(disk'.bytes) IN
                IF data.some THEN Some(data.value.command_patterns) ELSE None
    /\ calls' = [calls EXCEPT ![t] = IdleThread(@.done + 1)]
    /\ last' = [op |-> "record", thread |-> t, save |-> "written"]
    /\ UNCHANGED << command_patterns, modification_count >>
    /\ ConcFrame

ConcNext ==
    \/ \E t \in Threads, text \in LearnTexts : RecordUpdate(t, text, MaxConcurrent)
    \/ \E t \in Threads : RecordCount(t)
    \/ \E t \in Threads : SaveSnapshot(t)
    \/ \E t \in Threads : SaveCreate(t)
    \/ \E t \in Threads : SaveWrite(t)

\* Two threads recording acceptances of two texts.
ConcSpec == ConcInit /\ [][ConcNext]_vars

RaceNext ==
    \/ \E t \in Threads : RecordUpdate(t, "git status", MaxRace)
    \/ \E t \in Threads : RecordCount(t)
    \/ \E t \in Threads : SaveSnapshot(t)
    \/ \E t \in Threads : SaveCreate(t)
    \/ \E t \in Threads : SaveWrite(t)

\* Two threads recording acceptances of one text, past the second save.
RaceSpec == ConcInit /\ [][RaceNext]_vars

\* ------------------------------------------------ predict called concurrently
\* Two callers of predict on one engine (`&self`).
Callers == {"c1", "c2"}

\* The inputs, limits and contexts of the concurrent calls: every call is in
\* a git repository.
DualInputs == {"", "."}
DualContexts == {Context(TRUE, "Rust"), Context(TRUE, "Unknown")}

DualInit ==
    /\ now = 0
    /\ max_entries = EngineMaxEntries
    /\ cache = << >>
    /\ command_patterns = << >>
    /\ modification_count = 0
    /\ disk = NoFile
    /\ calls = [c \in Callers |-> IdleCall]
    /\ last = NoOp
    /\ seen = [i \in Keys |-> {}]
    /\ populated = [i \in Keys |-> None]
    /\ predictions = << >>
    /\ saved = None
    /\ terminal = TerminalNew
    /\ current_dir = RepoDir
    /\ returned = [c \in Callers |-> None]

\* A caller enters predict while no other caller is in generate_predictions
\* for another input.
DualStart(c, input, limit, ctx) ==
    /\ \A o \in DOMAIN calls : calls[o].pc = "collect" => calls[o].input = input
    /\ PredictStart(c, input, limit, ctx)
    /\ returned' = [o \in DOMAIN returned |->
                       IF o = c \/ ~returned[o].some THEN None
                       ELSE Some([returned[o].value EXCEPT !.overlapped = @ \ {c}])]
    /\ UNCHANGED terminal

\* A caller's predict returns from generate_predictions.
DualFinish(c) ==
    /\ Finish(c)
    /\ returned' = [returned EXCEPT ![c] =
                       Some([input |-> calls[c].input, result |-> last'.result,
                             overlapped |->
                                 {o \in DOMAIN calls \ {c} :
                                     /\ calls[o].pc = "collect"
                                     /\ calls[o].input = calls[c].input}])]
    /\ UNCHANGED terminal

DualNext ==
    \/ \E c \in Callers, input \in DualInputs, limit \in Limits, ctx \in DualContexts :
          DualStart(c, input, limit, ctx)
    \/ \E c \in Callers, tx \in Sources : SourceTask(c, tx)
    \/ \E c \in Callers : DualFinish(c)

\* Two callers of predict at once.
DualSpec == DualInit /\ [][DualNext]_vars

\* ================================================================== claims

TextsOf(preds) == {preds[i].text : i \in 1..Len(preds)}

RustGit == Context(TRUE, "Rust")

\* C1 (as claimed): on a cache miss with a parseable input, once every
\* spawned source task has sent its output every sender of the fan-in
\* channel has been dropped, so that the collection loop ends (rx.recv()
\* yields None, the step Finish) and predict returns.
C1_AllSendersDropped ==
    \A c \in DOMAIN calls :
        (calls[c].pc = "collect" /\ calls[c].tasks = {}) =>
            calls[c].senders = {}

\* C2: the calls predict(x, n) that find the entry for x younger than the
\* TTL all return the list the entry was stored with, whatever was accepted
\* in between: per input, at most one list is returned while the entry lives.
C2_HitStability == \A k \in Keys : Cardinality(seen[k]) <= 1

\* C2 witness: a hit returns "git status" with the score it was stored with
\* although its acceptance has been recorded since.
C2_Witness ==
    /\ last.op = "predict" /\ last.hit
    /\ "git status" \in DOMAIN command_patterns
    /\ \E i \in 1..Len(last.result) :
          last.result[i].text = "git status" /\ last.result[i].confidence < One

\* C3 (as claimed): every list predict returns has at most `limit` elements.
C3_AtMostLimit == last.op = "predict" => Len(last.result) <= last.limit

\* The list of the worked example: texts, sources and scores in order.
C4_Expected ==
    << [text |-> "ls -la", source |-> "History", confidence |-> 100000],
       [text |-> "git status", source |-> "GitContext", confidence |-> 96800],
       [text |-> "cargo run", source |-> "DirectoryContext", confidence |-> 93500],
       [text |-> "cargo build", source |-> "DirectoryContext", confidence |-> 88000],
       [text |-> "cargo test", source |-> "ProjectType", confidence |-> 77000] >>

C4_Case ==
    /\ last.op = "predict" /\ ~last.hit
    /\ last.input = "" /\ last.limit = 5 /\ last.ctx = RustGit
    /\ DOMAIN command_patterns = {}

\* C4: with no learned pattern, a cache-miss predict("", 5) in a Rust project
\* inside a git repository returns ls -la 1.0, git status 0.968 (the
\* GitContext one), cargo run 0.935, cargo build 0.88, cargo test 0.77.
C4_WorkedExample ==
    C4_Case =>
        /\ Len(last.result) = 5
        /\ \A i \in 1..5 :
              /\ last.result[i].text = C4_Expected[i].text
              /\ last.result[i].source = C4_Expected[i].source
              /\ last.result[i].confidence = C4_Expected[i].confidence

C4_Witness == C4_Case

\* C5 (as claimed): when one source task panics predict still returns, and
\* what it returns holds exactly the texts of the other started sources (as
\* many as the limit allows).
C5_ReturnsDespitePanic ==
    /\ \A c \in DOMAIN calls :
          (calls[c].pc = "collect" /\ calls[c].panicked # {} /\ calls[c].tasks = {}) =>
              calls[c].senders = {}
    /\ (last.op = "predict" /\ ~last.hit /\ last.panicked # {}) =>
          LET others == UNION {TextsOf(SourceOutput(tx, last.input, last.ctx)) :
                                  tx \in Spawned(last.ctx) \ last.panicked}
          IN  /\ TextsOf(last.result) \subseteq others
              /\ Len(last.result) = Min(last.limit, Cardinality(others))

\* C6 (as claimed): the cache never holds more than max_entries entries.
C6_CapacityBound == Cardinality(DOMAIN cache) <= max_entries

\* What get must return for key in the cache c at time t.
C7_Expected(c, key, t) ==
    IF key \in DOMAIN c /\ t - c[key].timestamp < TTL
    THEN Some(c[key].predictions)
    ELSE None

\* C7: get returns the stored list when the entry is younger than the TTL and
\* none otherwise, and changes nothing; an entry leaves the map only in a set
\* or a clear.
C7_GetLazyExpiry ==
    [][ /\ last'.op = "get" =>
              (cache' = cache /\ last'.result = C7_Expected(cache, last'.key, now))
        /\ (\E k \in DOMAIN cache : k \notin DOMAIN cache') =>
              last'.op \in {"set", "clear"} ]_vars

\* C7 witness: get has just returned none for an entry that is expired and
\* still in the map.
C7_Witness ==
    /\ last.op = "get" /\ ~last.result.some
    /\ last.key \in DOMAIN cache
    /\ now - cache[last.key].timestamp >= TTL

\* C8: a set with an empty list changes nothing in the cache, and no entry
\* ever holds an empty list.
C8_EmptySetNoOp ==
    /\ [](\A k \in DOMAIN cache : cache[k].predictions # << >>)
    /\ [][(last'.op = "set" /\ last'.predictions = << >>) => cache' = cache]_vars

\* C8 witness: set(key, []) has just run on a full cache that holds an
\* expired entry for key.
C8_Witness ==
    /\ last.op = "set" /\ last.predictions = << >>
    /\ Cardinality(DOMAIN cache) >= max_entries
    /\ last.key \in DOMAIN cache
    /\ now - cache[last.key].timestamp >= TTL

\* C9: update_prediction replaces the first prediction whose text is
\* old.text and returns true; with no such prediction or no entry it returns
\* false and changes nothing; timestamps, the other predictions and the
\* other entries never change.
C9_UpdateInPlace ==
    [][ last'.op = "update_prediction" =>
          LET k == last'.key
              t == last'.old.text
              ps == cache[k].predictions
          IN  IF k \in DOMAIN cache /\ t \in TextsOf(ps)
              THEN /\ last'.result = TRUE
                   /\ DOMAIN cache' = DOMAIN cache
                   /\ \A o \in DOMAIN cache \ {k} : cache'[o] = cache[o]
                   /\ cache'[k].timestamp = cache[k].timestamp
                   /\ Len(cache'[k].predictions) = Len(ps)
                   /\ \E i \in 1..Len(ps) :
                         /\ ps[i].text = t
                         /\ \A j \in 1..(i - 1) : ps[j].text # t
                         /\ \A j \in 1..Len(ps) :
                               cache'[k].predictions[j] =
                                   IF j = i THEN last'.new ELSE ps[j]
              ELSE /\ last'.result = FALSE
                   /\ cache' = cache ]_vars

\* C9 witness: update_prediction has just replaced the first of two
\* predictions with the text of `old`; the second is still there.
C9_Witness ==
    /\ last.op = "update_prediction" /\ last.result
    /\ cache[last.key].predictions = << pRun, pLs, pGitG >>
    /\ last.old = pGitH

\* C10: a predict that finds the entry for its input younger than the TTL
\* returns the list stored by the predict that populated it, even when the
\* context has changed since.
C10_KeyIgnoresContext ==
    ( /\ last.op = "predict" /\ last.live
      /\ populated[last.input].some
      /\ populated[last.input].value.ctx # last.ctx ) =>
        last.result = populated[last.input].value.result

\* C10 witness: a hit outside any git repository returns the list computed
\* inside one.
C10_Witness ==
    /\ last.op = "predict" /\ last.hit
    /\ populated[last.input].some
    /\ populated[last.input].value.ctx = RustGit
    /\ last.ctx = Context(FALSE, "Unknown")
    /\ last.result = populated[last.input].value.result

\* The source multiplier, the type multiplier (in hundredths) and the usage
\* bonus as the ranking contract states them.
C13_S(src) ==
    CASE src = "History" -> 120
      [] src = "UserPatterns" -> 130
      [] src = "GitContext" -> 110
      [] OTHER -> 100

C13_T(ptype) == IF ptype = "FullCommand" THEN 110 ELSE 100

C13_U(usage) == IF usage > 0 THEN (Min(usage, 5) * One) \div 25 ELSE 0

\* min(1.0, c * s * t + u)
C13_Confidence(p) ==
    Min(One, (p.confidence * C13_S(p.source) * C13_T(p.prediction_type)) \div 10000
             + C13_U(p.usage_count))

\* The candidate p with its post-scoring confidence.
C13_Scored(p) == [p EXCEPT !.confidence = C13_Confidence(p)]

\* C11: after rank the texts of the list are pairwise distinct, every text
\* of the input appears, and the survivor for a text is an input occurrence
\* whose post-scoring confidence is the highest among the occurrences of
\* that text.
C11_DedupKeepsBest ==
    last.op = "rank" =>
        LET in == last.input
            out == predictions
        IN  /\ \A i, j \in 1..Len(out) : i # j => out[i].text # out[j].text
            /\ TextsOf(out) = TextsOf(in)
            /\ \A j \in 1..Len(out) :
                  /\ \E i \in 1..Len(in) : out[j] = C13_Scored(in[i])
                  /\ \A i \in 1..Len(in) :
                        in[i].text = out[j].text =>
                            C13_Confidence(in[i]) <= out[j].confidence

\* C11 witness: of the two "git status" candidates the one from History,
\* first in the input, is gone and the one from GitContext (0.968) survives.
C11_Witness ==
    /\ last.op = "rank"
    /\ last.input = << pGitH, pRun, pGitG >>
    /\ predictions = << C13_Scored(pGitG), C13_Scored(pRun) >>

\* Index in the input of the survivor at position j of the output.
C12_Origin(in, out, j) ==
    CHOOSE i \in 1..Len(in) :
        /\ C13_Scored(in[i]) = out[j]
        /\ \A h \in 1..(i - 1) : C13_Scored(in[h]) # out[j]

\* C12: after rank the list is in non-increasing order of adjusted
\* confidence, and survivors with equal adjusted confidence are in the
\* order they had in the input.
C12_StableDescending ==
    last.op = "rank" =>
        LET in == last.input
            out == predictions
        IN  \A j, k \in 1..Len(out) :
                j < k =>
                    /\ out[j].confidence >= out[k].confidence
                    /\ out[j].confidence = out[k].confidence =>
                          C12_Origin(in, out, j) < C12_Origin(in, out, k)

\* C12 witness: "cargo run" and "ls -la" both score 1.0 and keep their input
\* order, ahead of the lower candidate that preceded them in the input.
C12_Witness ==
    /\ last.op = "rank"
    /\ last.input = << pFlag, pCargoH, pLs >>
    /\ predictions = << C13_Scored(pCargoH), C13_Scored(pLs), pFlag >>

\* C13: rank sets each prediction's confidence to min(1.0, c * s * t + u)
\* and changes no other field: every prediction of the output is a
\* prediction of the input with that confidence, one per text of the input.
C13_ScoreFormula ==
    last.op = "rank" =>
        /\ \A j \in 1..Len(predictions) :
              \E i \in 1..Len(last.input) : predictions[j] = C13_Scored(last.input[i])
        /\ \A i \in 1..Len(last.input) :
              (\A h \in 1..Len(last.input) :
                   h # i => last.input[h].text # last.input[i].text) =>
                  \E j \in 1..Len(predictions) : predictions[j] = C13_Scored(last.input[i])

\* C13 witness: a UserPatterns candidate used 7 times (0.2 * 1.3 + 0.2), a
\* candidate used 3 times (0.3 + 0.12) and a clamped one have been scored.
C13_Witness ==
    /\ last.op = "rank"
    /\ last.input = << pLsU, pCdU, pLs >>
    /\ predictions = << [pLs EXCEPT !.confidence = One],
                         [pCdU EXCEPT !.confidence = 46000],
                         [pLsU EXCEPT !.confidence = 42000] >>

\* The texts of a list, in order.
TextSeq(preds) == [i \in 1..Len(preds) |-> preds[i].text]

\* The lists that are permutations of preds.
ListPermutations(preds) ==
    {[i \in 1..Len(preds) |-> preds[f[i]]] :
        f \in {g \in [1..Len(preds) -> 1..Len(preds)] :
                  \A x \in 1..Len(preds) : \E y \in 1..Len(preds) : g[y] = x}}

\* C14 (as claimed): rank produces the same sequence of texts for every
\* permutation of its input.
C14_OrderIndependent ==
    last.op = "rank" =>
        \A q \in ListPermutations(last.input) : TextSeq(rank(q)) = TextSeq(predictions)

\* C20: filter_for_ghost returns the first candidate whose confidence is at
\* least 0.4; on a list in non-increasing order of confidence it returns
\* none exactly when the list is empty or its first candidate is below 0.4.
C20_GhostThreshold ==
    last.op = "filter_for_ghost" =>
        LET ps == predictions
            r == last.result
            sorted == \A i \in 1..(Len(ps) - 1) : ps[i].confidence >= ps[i + 1].confidence
        IN  /\ r.some <=> \E i \in 1..Len(ps) : ps[i].confidence >= 40000
            /\ r.some =>
                  \E i \in 1..Len(ps) :
                      /\ r.value = ps[i]
                      /\ ps[i].confidence >= 40000
                      /\ \A j \in 1..(i - 1) : ps[j].confidence < 40000
            /\ sorted => (~r.some <=> (ps = << >> \/ ps[1].confidence < 40000))

\* C20 witness: on a ranked list whose top candidate scores exactly 0.4
\* filter_for_ghost returns that candidate.
C20_Witness ==
    /\ last.op = "filter_for_ghost"
    /\ predictions = << pCd, pFlag >>
    /\ last.result = Some(pCd)

\* min(confidence + min(count, 10) / 10, 1.0)
C15_Confidence(conf, count) == Min(conf + (Min(count, 10) * One) \div 10, One)

\* C15: adjust_scores sets the confidence of every candidate whose text has
\* a learned pattern to min(confidence + min(count, 10) / 10, 1.0) and leaves
\* the candidates without a pattern, every other field, and the length and
\* order of the list as they were.
C15_AdjustFormula ==
    last.op = "adjust_scores" =>
        /\ Len(predictions) = Len(last.input)
        /\ \A i \in 1..Len(last.input) :
              LET p == last.input[i] IN
              IF p.text \in DOMAIN command_patterns
              THEN predictions[i] =
                       [p EXCEPT !.confidence =
                           C15_Confidence(p.confidence, command_patterns[p.text].count)]
              ELSE predictions[i] = p

\* C15 witness: "git status" was accepted twice and "ls -la" never: the two
\* "git status" candidates go from 0.7 and 0.8 to 0.9 and 1.0, "ls -la"
\* between them is untouched.
C15_Witness ==
    /\ last.op = "adjust_scores"
    /\ last.input = << pGitH, pLs, pGitG >>
    /\ DOMAIN command_patterns = {"git status"}
    /\ command_patterns["git status"].count = 2
    /\ predictions = << [pGitH EXCEPT !.confidence = 90000], pLs,
                         [pGitG EXCEPT !.confidence = One] >>

\* C16: once the acceptance of a text has been recorded ten or more times,
\* adjust_scores sets every candidate with that text and a confidence in
\* [0, 1] to exactly 1.0.
C16_BoostSaturates ==
    last.op = "adjust_scores" =>
        \A i \in 1..Len(last.input) :
            ( /\ Count(last.input[i].text) >= 10
              /\ last.input[i].confidence >= 0
              /\ last.input[i].confidence <= One ) =>
                predictions[i].confidence = One

\* C16 witness: "git status" was accepted ten times, "ls -la" in between,
\* and a "git status" candidate of confidence 0 has been set to 1.0.
C16_Witness ==
    /\ last.op = "adjust_scores"
    /\ last.input = << pFull, pZero >>
    /\ Count("git status") = 10
    /\ Count("ls -la") = 1
    /\ predictions[2] = [pZero EXCEPT !.confidence = One]

\* C17: record_accepted_prediction(p) creates the pattern for p.text with
\* count 1 or increases its count by 1, sets its last_used to the current
\* time, increases the modification counter by 1 and changes no other
\* pattern.
C17_RecordFrame ==
    [][ last'.op = "record" =>
          LET t == last'.text IN
          /\ DOMAIN command_patterns' = DOMAIN command_patterns \cup {t}
          /\ command_patterns'[t].count =
                 IF t \in DOMAIN command_patterns
                 THEN command_patterns[t].count + 1
                 ELSE 1
          /\ command_patterns'[t].last_used = now
          /\ modification_count' = modification_count + 1
          /\ \A k \in DOMAIN command_patterns \ {t} :
                 command_patterns'[k] = command_patterns[k] ]_vars

\* C17 witness: the second acceptance of "git status" has just been
\* recorded at a later time than the pattern of "ls -la", which is as it was.
C17_Witness ==
    /\ last.op = "record" /\ last.text = "git status"
    /\ now > 0
    /\ DOMAIN command_patterns = {"git status", "ls -la"}
    /\ command_patterns["git status"] = PatternData(2, now)
    /\ command_patterns["ls -la"] = PatternData(1, 0)
    /\ modification_count = 3

\* C18: a missing, unreadable or corrupt learning file at construction
\* yields an empty pattern map; a save that fails leaves the pattern map and
\* the modification counter as the recording made them; the file is written
\* by no step but a recording whose counter value is a multiple of
\* SAVE_INTERVAL.
C18_FailuresContained ==
    [][ /\ ( /\ last'.op = "new"
             /\ \/ disk.file = "absent"
                \/ last'.io # "ok"
                \/ ~saved.some ) =>
               command_patterns' = << >>
        /\ (last'.op = "record" /\ last'.save \in {"create_failed", "write_failed"}) =>
               /\ last'.text \in DOMAIN command_patterns'
               /\ command_patterns'[last'.text].count = Count(last'.text) + 1
               /\ command_patterns'[last'.text].last_used = now
               /\ \A k \in DOMAIN command_patterns \ {last'.text} :
                      command_patterns'[k] = command_patterns[k]
               /\ modification_count' = modification_count + 1
        /\ disk' # disk =>
               /\ last'.op = "record"
               /\ modification_count % SAVE_INTERVAL = 0 ]_vars

\* C18 witness: a construction has just found a file that a failed write
\* left with one whole entry of two, and started from the empty map.
C18_Witness ==
    /\ last.op = "new" /\ last.io = "ok"
    /\ disk.file = "data" /\ ~saved.some
    /\ Len(disk.bytes) >= 4
    /\ disk.bytes[1].n = 2
    /\ command_patterns = << >>

C21_ParseFailure ==
    /\ [](\A c \in DOMAIN calls :
             calls[c].pc = "collect" => ~ParseFails(calls[c].input))
    /\ [][ (last'.op = "predict" /\ ~last'.hit /\ ParseFails(last'.input)) =>
               /\ last'.result = << >>
               /\ calls' = calls
               /\ cache' = cache ]_vars

\* C21 witness: predict has just returned the empty list for a rejected
\* input while the cache holds entries, none of them for that input.
C21_Witness ==
    /\ last.op = "predict" /\ ParseFails(last.input)
    /\ last.result = << >>
    /\ DOMAIN cache # {}
    /\ last.input \notin DOMAIN cache

\* Number of occurrences of p in the list.
Occ(list, p) == Cardinality({i \in 1..Len(list) : list[i] = p})

\* `all` is the multiset union of the outputs of the history, directory and
\* project sources and, in a git repository only, of the git source.
C22_Merged(all, input, ctx) ==
    LET h == predict_from_history(input)
        d == predict_from_directory_context(input, ctx)
        p == predict_from_project_context(input, ctx)
        g == IF ctx.in_git_repo THEN predict_from_git_context(input, ctx) ELSE << >>
        elems(l) == {l[i] : i \in 1..Len(l)}
    IN  /\ Len(all) = Len(h) + Len(d) + Len(p) + Len(g)
        /\ \A x \in elems(all) \cup elems(h) \cup elems(d) \cup elems(p) \cup elems(g) :
              Occ(all, x) = Occ(h, x) + Occ(d, x) + Occ(p, x) + Occ(g, x)

\* C22: once every started source has delivered, the collected list is the
\* multiset union of the history, directory-context and project-type
\* outputs plus, exactly in a git repository, the git-context output; the
\* collection loop ends, and adjustment and ranking start, only then.
C22_FanIn ==
    /\ [](\A c \in DOMAIN calls :
             (calls[c].pc = "collect" /\ calls[c].tasks = {}) =>
                 C22_Merged(calls[c].all_predictions, calls[c].input, calls[c].ctx))
    /\ [][ \A c \in DOMAIN calls :
               (calls[c].pc = "collect" /\ calls'[c].pc = "idle") =>
                   /\ calls[c].tasks = {}
                   /\ C22_Merged(calls[c].all_predictions, calls[c].input, calls[c].ctx) ]_vars

\* C22 witness: outside a git repository the three started sources have
\* delivered five candidates for the empty input, none from the git source.
C22_Witness ==
    \E c \in DOMAIN calls :
        /\ calls[c].pc = "collect" /\ calls[c].tasks = {}
        /\ calls[c].input = "" /\ calls[c].ctx = Context(FALSE, "Rust")
        /\ Len(calls[c].all_predictions) = 5

\* C23: a predict that hits the cache changes nothing: the entry keeps its
\* list and its timestamp, no source task is started, the learned patterns
\* and the file are as they were.
C23_HitChangesNothing ==
    [][ (last'.op = "predict" /\ last'.hit) =>
           /\ cache' = cache
           /\ calls' = calls
           /\ command_patterns' = command_patterns
           /\ modification_count' = modification_count
           /\ disk' = disk ]_vars

\* C23 witness: a hit on an entry stored at an earlier time, whose timestamp
\* is still that time.
C23_Witness ==
    /\ last.op = "predict" /\ last.hit
    /\ last.input \in DOMAIN cache
    /\ cache[last.input].timestamp < now

\* The candidates in the order tx1, tx2, tx3, tx4 of the started sources.
C26_InSpawnOrder(input, ctx) ==
    predict_from_history(input)
        \o predict_from_directory_context(input, ctx)
        \o predict_from_project_context(input, ctx)
        \o (IF ctx.in_git_repo THEN predict_from_git_context(input, ctx) ELSE << >>)

\* The keys of the entries of c younger than the TTL at time t.
C24_Unexpired(c, t) == {k \in DOMAIN c : t - c[k].timestamp < TTL}

\* C24: a set removes an entry younger than the TTL only when the entries
\* younger than the TTL alone number at least max_entries.
C24_ExpiredFirst ==
    [][ last'.op = "set" =>
          \A k \in (DOMAIN cache) \ (DOMAIN cache') :
              k \in C24_Unexpired(cache, now) =>
                  Cardinality(C24_Unexpired(cache, now)) >= max_entries ]_vars

\* C24 witness: a set has just removed an entry younger than the TTL.
C24_Witness ==
    /\ last.op = "set"
    /\ \E k \in DOMAIN last.removed : now - last.removed[k] < TTL

\* The maps a set of (key, preds) at time t must leave behind when both its
\* phases run: the expired entries are gone, and so is a non-empty set R of
\* max \div 3 of the oldest others (all of them if fewer remain).
C25_Expected(c, key, preds, t, max) ==
    LET F == C24_Unexpired(c, t) IN
    {Insert(Restrict(c, F \ R), key, CacheEntry(preds, t)) :
        R \in {R \in SUBSET F :
                  /\ R # {}
                  /\ Cardinality(R) = Min(max \div 3, Cardinality(F))
                  /\ \A r \in R : \A s \in F \ R :
                         c[r].timestamp <= c[s].timestamp}}

\* C25 (as claimed): a set that finds at least max_entries entries, all of
\* them younger than the TTL or enough of them, removes the oldest third: at
\* least one entry, none younger than a survivor.
C25_OldestThird ==
    [][ ( /\ last'.op = "set" /\ last'.predictions # << >>
          /\ Cardinality(DOMAIN cache) >= max_entries
          /\ Cardinality(C24_Unexpired(cache, now)) >= max_entries ) =>
            cache' \in C25_Expected(cache, last'.key, last'.predictions, now,
                                    max_entries) ]_vars

\* C26 (as claimed): for a given input, context and learned patterns a
\* cache-miss predict returns one list whatever the order in which the
\* source tasks complete: the list computed when they complete in the order
\* they were spawned.
C26_InterleavingIndependent ==
    (last.op = "predict" /\ ~last.hit /\ ~ParseFails(last.input)) =>
        last.result =
            FinalList(C26_InSpawnOrder(last.input, last.ctx), command_patterns, last.limit)

\* C27 (as claimed): record_accepted_prediction writes the pattern map to
\* disk exactly when the counter after the increment is a positive multiple
\* of the save interval.
C27_SaveOnMultiple ==
    last.op = "record" =>
        (last.save # "none" <=>
            (modification_count > 0 /\ modification_count % SAVE_INTERVAL = 0))

\* The learned count of text in the pattern map pats.
C28_Count(pats, text) == IF text \in DOMAIN pats THEN pats[text].count ELSE 0

\* C28 (as claimed): when the terminal loop accepts a ghost (Tab or Right),
\* the learned count of the accepted prediction's text goes up by one.
C28_AcceptIsRecorded ==
    [][ last'.op = "accept" =>
          C28_Count(command_patterns', last'.prediction.text) =
              C28_Count(command_patterns, last'.prediction.text) + 1 ]_vars

\* C29 (as claimed): the usage_count of every prediction a cache-miss
\* predict returns is the number of acceptances recorded for its text.
C29_UsageCountTracksAccepts ==
    (last.op = "predict" /\ ~last.hit) =>
        \A i \in 1..Len(last.result) :
            last.result[i].usage_count = Count(last.result[i].text)

\* C30: a learned pattern is never removed and its count never decreases.
C30_PatternsOnlyGrow ==
    [][ \A k \in DOMAIN command_patterns :
           /\ k \in DOMAIN command_patterns'
           /\ command_patterns'[k].count >= command_patterns[k].count ]_vars

\* C30 witness: scores have just been adjusted after "git status" was
\* accepted three times and "ls -la" once, in between.
C30_Witness ==
    /\ last.op = "adjust_scores"
    /\ Count("git status") = 3
    /\ Count("ls -la") = 1
    /\ last.input = << pGitH, pLs, pGitG >>

\* C32 (as claimed): whatever the incoming confidences, every confidence in
\* the list rank leaves lies within [0.0, 1.0].
C32_RankClampsBothEnds ==
    last.op = "rank" =>
        \A i \in 1..Len(predictions) :
            /\ predictions[i].confidence >= 0
            /\ predictions[i].confidence <= One

\* C31: a predict that comes back from generate_predictions with a non-empty
\* list has stored it under its input with the time of the return, whether
\* or not the terminal loop displays it; no entry leaves the cache or gets
\* older; and a predict that finds an entry younger than the TTL for its
\* input returns that entry's list as a hit.
C31_SlowCallsPopulate ==
    /\ [][ (last'.op = "predict" /\ ~last'.hit /\ last'.result # << >>) =>
              /\ last'.input \in DOMAIN cache'
              /\ cache'[last'.input] = CacheEntry(last'.result, now) ]_vars
    /\ [][ \A i \in DOMAIN cache :
              /\ i \in DOMAIN cache'
              /\ cache'[i].timestamp >= cache[i].timestamp ]_vars
    /\ [][ \A i \in DOMAIN cache :
              ( /\ now - cache[i].timestamp < TTL
                /\ calls["c1"].pc = "idle"
                /\ terminal.current_input # i
                /\ terminal'.current_input = i ) =>
                  /\ last'.op = "predict" /\ last'.hit
                  /\ last'.result = cache[i].predictions ]_vars

\* C31 witness: predict("", 5) has just returned a non-empty list that the
\* terminal loop did not display (it took 5 ms or more), and the cache holds
\* it.
C31_Witness ==
    /\ last.op = "predict" /\ ~last.hit /\ last.input = ""
    /\ last.result # << >>
    /\ ~terminal.current_ghost.some
    /\ cache[""].predictions = last.result

\* C37 (as claimed): Tab or Right accepts a ghost only while it is on the
\* screen for the current line: after a keystroke that rendered no ghost,
\* nothing is accepted.
C37_AcceptOnlyDisplayed ==
    [][ last'.op = "accept" => terminal.rendered ]_vars

C34_GitCheck ==
    last.op = "analyze" =>
        IF ".git" \in current_dir.entries
        THEN last.result.in_git_repo /\ ~last.git_invoked
        ELSE /\ last.git_invoked
             /\ last.result.in_git_repo <=> (current_dir.git = "success")

\* C34 witness: analyze has just answered false in a directory without .git
\* where git could not be started.
C34_Witness ==
    /\ last.op = "analyze"
    /\ ".git" \notin current_dir.entries
    /\ current_dir.git = "spawn_error"
    /\ ~last.result.in_git_repo

\* The calls whose `fetch_add` has run.
C35_Counted ==
    SumOver([t \in DOMAIN calls |->
                calls[t].done + IF calls[t].pc \in {"idle", "count"} THEN 0 ELSE 1],
            DOMAIN calls)

\* C35: in every interleaving of the calls of two threads, the pattern counts
\* add up to the number of calls that have done their map update and the
\* modification counter is the number of calls that have done their
\* fetch_add; with every call returned, both are the number of calls.
C35_NoLostUpdate ==
    /\ SumOver([k \in DOMAIN command_patterns |-> command_patterns[k].count],
               DOMAIN command_patterns) = Begun
    /\ modification_count = C35_Counted

\* C35 witness: four calls have returned, two for each text, and the first
\* two overlapped (the save of one was under way when the other returned).
C35_Witness ==
    /\ \A t \in DOMAIN calls : calls[t].pc = "idle" /\ calls[t].done = 2
    /\ \A k \in LearnTexts :
          k \in DOMAIN command_patterns /\ command_patterns[k].count = 2
    /\ saved.some /\ DOMAIN saved.value = LearnTexts

\* C36 (as claimed): from one completed write of the learning file to the
\* next, the count the file holds for a text never goes down.
C36_PersistedMonotone ==
    [][ (saved.some /\ saved'.some) =>
          \A k \in DOMAIN saved.value :
              /\ k \in DOMAIN saved'.value
              /\ saved'.value[k].count >= saved.value[k].count ]_vars

\* The candidates the sources produce for an input in a context.
C33_Base(input, ctx) ==
    UNION {{SourceOutput(tx, input, ctx)[i] :
               i \in 1..Len(SourceOutput(tx, input, ctx))} : tx \in Sources}

\* The candidate q after the learning boost for n recorded acceptances and
\* one application of the ranking formula.
C33_Once(q, n) ==
    C13_Scored([q EXCEPT !.confidence = C15_Confidence(q.confidence, n)])

\* The recorded acceptances of text.
C33_Learned(text) ==
    IF text \in DOMAIN command_patterns THEN command_patterns[text].count ELSE 0

\* C33: every prediction a predict call returns, computed by this call or
\* taken from the cache, is a candidate of a source for the call's input with
\* the learning boost and the ranking formula applied exactly once: the
\* boost is that of the text's current count when the call computed the
\* list, and of a count recorded by then when the list comes from the cache.
C33_ScoredOnce ==
    last.op = "predict" =>
        \A i \in 1..Len(last.result) :
            LET p == last.result[i]
                counts == IF last.hit THEN 0..C33_Learned(p.text)
                          ELSE {C33_Learned(p.text)}
                ctxs == IF last.hit THEN Contexts ELSE {last.ctx}
            IN  \E ctx \in ctxs : \E q \in C33_Base(last.input, ctx) :
                    \E n \in counts : p = C33_Once(q, n)

\* C33 witness: the list for "" was computed before the acceptance of
\* "git status" was recorded, and a later predict("") returns it from the
\* cache with "git status" at 0.8 * 1.1 * 1.1, the score of its first
\* computation.
C33_Witness ==
    /\ last.op = "predict" /\ last.hit /\ last.input = ""
    /\ cache[""].timestamp < now
    /\ C33_Learned("git status") = 1
    /\ \E i \in 1..Len(last.result) :
          /\ last.result[i].text = "git status"
          /\ last.result[i].confidence = 96800

\* Both callers' predicts have come back from generate_predictions for the
\* same input, and one of them was still in it when the other came back.
C39_BothCompleted ==
    /\ returned["c1"].some /\ returned["c2"].some
    /\ returned["c1"].value.input = returned["c2"].value.input
    /\ \/ "c2" \in returned["c1"].value.overlapped
       \/ "c1" \in returned["c2"].value.overlapped

\* C39 (as claimed): after two concurrent misses on one input have both
\* completed, the cache holds an entry for the input whose list is the list
\* one of the two returned.
C39_OneEntryOfTheTwo ==
    C39_BothCompleted =>
        LET i == returned["c1"].value.input IN
        /\ i \in DOMAIN cache
        /\ cache[i].predictions \in
               {returned["c1"].value.result, returned["c2"].value.result}

\* C39 (amended): after two concurrent misses on one input have both
\* completed, if one of them returned a non-empty list the cache holds an
\* entry for the input whose list is a non-empty list one of the two
\* returned; if both returned the empty list, neither stored anything.
C39_OneEntryUnlessBothEmpty ==
    C39_BothCompleted =>
        LET i == returned["c1"].value.input
            lists == {returned["c1"].value.result, returned["c2"].value.result}
        IN  IF lists = {<< >>}
            THEN i \notin DOMAIN cache
            ELSE /\ i \in DOMAIN cache
                 /\ cache[i].predictions \in lists \ {<< >>}

\* C39 witness: two concurrent predict("") with limits 2 and 5 have both
\* completed with different lists, and the cache holds the shorter.
C39_Witness ==
    /\ C39_BothCompleted
    /\ returned["c1"].value.input = ""
    /\ Len(returned["c1"].value.result) = 2
    /\ Len(returned["c2"].value.result) = 5
    /\ cache[""].predictions = returned["c1"].value.result

\* C40: after any sequence of predict, record_prediction_accepted and clear,
\* every list held by the cache is non-empty, has pairwise distinct texts, is
\* in non-increasing order of confidence and has no confidence above 1.0.
C40_CachedListsWellFormed ==
    \A k \in DOMAIN cache :
        LET l == cache[k].predictions IN
        /\ Len(l) > 0
        /\ \A i, j \in 1..Len(l) : i # j => l[i].text # l[j].text
        /\ \A i, j \in 1..Len(l) : i < j => l[i].confidence >= l[j].confidence
        /\ \A i \in 1..Len(l) : l[i].confidence <= One

\* C40 witness: after an acceptance was recorded and the cache was cleared
\* (the list stored for "." is gone), predict("") has stored a list of
\* five predictions.
C40_Witness ==
    /\ "" \in DOMAIN cache
    /\ Len(cache[""].predictions) = 5
    /\ command_patterns # << >>
    /\ populated["."].some
    /\ populated["."].value.result # << >>
    /\ "." \notin DOMAIN cache

====
